---- MODULE Spec2Model ----
(***************************************************************************)
(* NestWise multi-agent orchestration (backend-langgraph/Agentic_AI/       *)
(* langgraph.py): one session's MasterState driven through the LangGraph   *)
(* workflow  extractor -> {matcher -> chatbot | chatbot | planner}         *)
(* -> [summarizer], one pass per chat_step call.                           *)
(*                                                                         *)
(* Python dicts are modelled with their insertion order where the code can *)
(* observe it: shadow_profile is a sequence of entries                     *)
(* [field, collected, importance]; real_profile is a function key -> value.*)
(* Texts produced by the language model or typed by the user are drawn     *)
(* from small tagged sets: <<"val", i>> is a value the extractor returns,  *)
(* <<"msg", i>> a user message, <<"title", i>> a generated title.          *)
(***************************************************************************)
EXTENDS Integers, Sequences, FiniteSets, TLC

VARIABLES
  pc,                   \* the workflow node about to run in the current chat_step, or "idle"
  last_human,           \* content of the last human message of state["messages"]
  shadow_profile,       \* state["shadow_profile"]: the CompletionMap
  real_profile,         \* state["real_profile"]: the ProfileValues
  extractor,            \* state["extractor"]: all_fields_filled, conversation_title
  selected_template,    \* state["matcher"].get("selected_template")
  conversation_title,   \* state["conversation_title"]
  chatbot_messages,     \* state["chatbot"]["messages"], by kind of message
  summary,              \* state["summarizer"].get("summary", "None")
  planner_last,         \* kind of state["planner"]["messages"][-1]
  reply,                \* what call_chatbot appended in the chat_step under way
  prev_is_last,         \* prev_assistant_message == state["chatbot"]["messages"][-1]
  agents_run,           \* the nodes run so far in the chat_step under way
  ext_response,         \* what model_extractor returned in the chat_step under way
  before,               \* the session's profile as the extractor found it
  title_requested,      \* call_extractor asked model_extractor for a title in this chat_step
  classifier_text,      \* what model_matcher returned in the chat_step under way
  planner_run,          \* the planner_graph nodes run so far in the chat_step under way
  planner_profile,      \* the profiles the planner nodes put into their prompts
  state_session,        \* the session_id of the start_session call that built state
  turn_session,         \* the session_id of the last chat_step call
  pending,              \* a second chat_step call that entered while one was under way
  outcome               \* how the last chat_step ended, and what it returned

vars == <<pc, last_human, shadow_profile, real_profile, extractor, selected_template,
          conversation_title, chatbot_messages, summary, planner_last, reply,
          prev_is_last,
          agents_run, ext_response, before, title_requested, classifier_text,
          planner_run, planner_profile, state_session, turn_session, pending,
          outcome>>

----------------------------------------------------------------------------
(* Program constants *)

COMPLETENESSRATIO == 1

MAXRATING == 5

summarize_threshold == 20

----------------------------------------------------------------------------
(* Bounds of the model *)

\* most keys in one extractor object, besides the object naming every missing field
MaxRespKeys == 1
\* distinct values the extractor may return for a field that takes several
MaxValue == 2

Values == {<<"val", i>> : i \in 1..MaxValue}
UserMsgs == {<<"msg", 1>>}
Titles == {<<"title", 1>>}
Summaries == {<<"summary", 1>>}

----------------------------------------------------------------------------
(* Static configuration *)

Q(f, i) == [field |-> f, collected |-> FALSE, importance |-> i]

prompt_infos ==
  [ spend   |-> << Q("retirement_age", 5), Q("desired_monthly_spending", 5),
                   Q("large_planned_expenses", 4), Q("travel_frequency", 3),
                   Q("lifestyle_upgrades", 2) >>,
    leave   |-> << Q("number_of_beneficiaries", 5), Q("beneficiary_relationships", 4),
                   Q("inheritance_goal_amount", 5),
                   Q("estate_distribution_preferences", 3),
                   Q("life_insurance_status", 2) >>,
    save    |-> << Q("retirement_age", 4), Q("expected_monthly_expenses", 5),
                   Q("risk_tolerance", 4), Q("healthcare_budget", 5),
                   Q("expected_retirement_duration", 3) >>,
    donate  |-> << Q("charity_names", 4), Q("donation_goal_amount", 5),
                   Q("donation_frequency", 3), Q("donation_timing", 4),
                   Q("legacy_donation_percentage", 2) >>,
    default |-> << Q("retirement_age", 4), Q("expected_monthly_expenses", 5),
                   Q("risk_tolerance", 4), Q("healthcare_budget", 5),
                   Q("inheritance_goal_amount", 3) >> ]

TemplateNames == DOMAIN prompt_infos

initial_shadow_profile ==
  << Q("goal", 5), Q("age", 2), Q("salary", 3), Q("savings", 4), Q("location", 5) >>

NoTemplate == "None"
NoTitle == <<"None", 0>>
InitialTitle == <<"initial", 0>>
EmptyDict == [k \in {} |-> <<"val", 0>>]

----------------------------------------------------------------------------
(* Python dict operations on the ordered shadow_profile *)

Keys(d) == {d[i].field : i \in DOMAIN d}

Item(d, k) == d[CHOOSE i \in DOMAIN d : d[i].field = k]

\* d[k] = entry : an existing key keeps its position, a new key goes last
DictSet(d, k, entry) ==
  IF k \in Keys(d)
    THEN [i \in DOMAIN d |-> IF d[i].field = k THEN entry ELSE d[i]]
    ELSE Append(d, entry)

\* dict.update(other)
DictUpdate(d, other) ==
  [k \in DOMAIN d \cup DOMAIN other |-> IF k \in DOMAIN other THEN other[k] ELSE d[k]]

----------------------------------------------------------------------------
(* Extraction Agent: call_extractor *)

\* a tolerant parser that salvages what the text is about instead of raising
ExtractorRaisesNothing(raw) == FALSE

\* json.loads(response.content) raises on text that is no JSON ("invalid"); a JSON
\* value that is no object and is truthy ("truthy": [1], 5, "x", true) fails at
\* response_dict.keys()
ExtractorRaises(raw) == raw.kind \in {"invalid", "truthy"}

\* `if not response_dict: return` : the empty object and the falsy non-objects
\* (null, 0, [], "", false) leave the node without an update
ExtractorReturnsNone(raw) ==
  raw.kind = "falsy" \/ (raw.kind = "object" /\ DOMAIN raw.obj = {})

common_keys(response_dict, profile) == DOMAIN response_dict \cap Keys(profile)

\* marks every tracked field, not only the common keys
MarkCollectedAll(profile, response_dict) ==
  [i \in DOMAIN profile |-> [profile[i] EXCEPT !.collected = TRUE]]

\* collected says whether the field is in this answer
MarkCollectedOnlyReturned(profile, response_dict) ==
  [i \in DOMAIN profile |->
     [profile[i] EXCEPT !.collected = (profile[i].field \in DOMAIN response_dict)]]

\* marks nothing
MarkCollectedNothing(profile, response_dict) == profile

\* for key in common_keys: shadow_profile[key]["collected"] = True
MarkCollected(profile, response_dict) ==
  [i \in DOMAIN profile |->
     IF profile[i].field \in common_keys(response_dict, profile)
       THEN [profile[i] EXCEPT !.collected = TRUE]
       ELSE profile[i]]

\* merges only the keys that shadow_profile tracks
MergeTrackedOnly(profile, response_dict, human) ==
  LET tracked == DOMAIN response_dict \cap Keys(shadow_profile)
      merged == [k \in DOMAIN profile \cup tracked |->
                   IF k \in tracked THEN response_dict[k] ELSE profile[k]]
  IN  IF "goal" \in DOMAIN response_dict
        THEN [merged EXCEPT !["goal"] = human]
        ELSE merged

\* keeps the value stored earlier (setdefault instead of update)
MergeKeepingEarlier(profile, response_dict, human) ==
  LET merged == [k \in DOMAIN profile \cup DOMAIN response_dict |->
                   IF k \in DOMAIN profile THEN profile[k] ELSE response_dict[k]]
  IN  IF "goal" \in DOMAIN response_dict
        THEN [merged EXCEPT !["goal"] = human]
        ELSE merged

\* the answer replaces the profile
MergeReplacing(profile, response_dict, human) ==
  IF "goal" \in DOMAIN response_dict
    THEN [response_dict EXCEPT !["goal"] = human]
    ELSE response_dict

\* real_profile.update(response_dict); the goal is then replaced by the content of
\* the last message handed to the extractor, the user's latest message
MergeProfile(profile, response_dict, human) ==
  LET merged == DictUpdate(profile, response_dict)
  IN  IF "goal" \in DOMAIN response_dict
        THEN [merged EXCEPT !["goal"] = human]
        ELSE merged

\* if "goal" in response_dict: a title is requested, with no test of the title held
TitleRequested(response_dict) == "goal" \in DOMAIN response_dict

\* the title request is issued whenever the returned object has the key "goal"
ExtractorTitle(old_title, response_dict, title) ==
  IF "goal" \in DOMAIN response_dict THEN title ELSE old_title

AllFieldsFilled(profile) == \A i \in DOMAIN profile : profile[i].collected

----------------------------------------------------------------------------
(* Router: route_decision_extractor, route_decision_summarize *)

\* adds one for a field, whatever its importance
SumImportanceCounting(profile, onlyCollected) ==
  Cardinality({i \in DOMAIN profile : ~onlyCollected \/ profile[i].collected})

RECURSIVE SumImportance(_, _)
\* the accumulation loop of the router over profile.items(), from entry i on
SumImportance(profile, onlyCollected) ==
  IF profile = <<>> THEN 0
  ELSE (IF onlyCollected /\ ~Head(profile).collected THEN 0 ELSE Head(profile).importance)
       + SumImportance(Tail(profile), onlyCollected)

totImportance(profile) == SumImportance(profile, FALSE)

totFilledImportance(profile) == SumImportance(profile, TRUE)

needsCriticalInfo(profile) ==
  \E i \in DOMAIN profile :
    profile[i].importance = MAXRATING /\ ~profile[i].collected

\* half of the importance is enough
CompletenessReachedHalf(profile) ==
  2 * totFilledImportance(profile) >= totImportance(profile)

\* currentCompleteness >= COMPLETENESSRATIO, the quotient of two naturals compared
\* without rounding (the divisor is positive where this is evaluated)
CompletenessReached(profile) ==
  totFilledImportance(profile) >= COMPLETENESSRATIO * totImportance(profile)

\* compares with > where the code has >=
route_decision_strict(profile, current_template) ==
  IF totImportance(profile) = 0 THEN "ZeroDivisionError"
  ELSE IF ~needsCriticalInfo(profile)
          /\ totFilledImportance(profile) > COMPLETENESSRATIO * totImportance(profile)
    THEN (IF current_template = NoTemplate THEN "matcher" ELSE "planner")
    ELSE "chatbot"

\* takes the branches of the readiness test the wrong way round
route_decision_inverted(profile, current_template) ==
  IF totImportance(profile) = 0 THEN "ZeroDivisionError"
  ELSE IF ~needsCriticalInfo(profile) /\ CompletenessReached(profile)
    THEN "chatbot"
    ELSE (IF current_template = NoTemplate THEN "matcher" ELSE "planner")

\* tests the template before the readiness
route_decision_template_first(profile, current_template) ==
  IF totImportance(profile) = 0 THEN "ZeroDivisionError"
  ELSE IF current_template = NoTemplate THEN "matcher"
  ELSE IF ~needsCriticalInfo(profile) /\ CompletenessReached(profile) THEN "planner"
  ELSE "chatbot"

\* does not look at the template: a ready profile always goes to the matcher
route_decision_rematch(profile, current_template) ==
  IF totImportance(profile) = 0 THEN "ZeroDivisionError"
  ELSE IF ~needsCriticalInfo(profile) /\ CompletenessReached(profile)
    THEN "matcher"
    ELSE "chatbot"

\* plans as soon as a template is selected
route_decision_planner_early(profile, current_template) ==
  IF totImportance(profile) = 0 THEN "ZeroDivisionError"
  ELSE IF current_template # NoTemplate THEN "planner"
  ELSE IF ~needsCriticalInfo(profile) /\ CompletenessReached(profile) THEN "matcher"
  ELSE "chatbot"

route_decision_extractor(profile, current_template) ==
  IF totImportance(profile) = 0 THEN "ZeroDivisionError"
  ELSE IF ~needsCriticalInfo(profile) /\ CompletenessReached(profile)
    THEN (IF current_template = NoTemplate THEN "matcher" ELSE "planner")
    ELSE "chatbot"

\* compares with > where the code has >=
route_decision_summarize_strict(messages) ==
  IF Len(messages) > summarize_threshold THEN "summarizer" ELSE "__end__"

\* summarizes two messages late
route_decision_summarize_late(messages) ==
  IF Len(messages) >= summarize_threshold + 2 THEN "summarizer" ELSE "__end__"

route_decision_summarize(messages) ==
  IF Len(messages) >= summarize_threshold THEN "summarizer" ELSE "__end__"

\* an edge from the matcher back to the extractor
workflow_edge_looping(node) ==
  CASE node = "matcher" -> "extractor"
    [] OTHER            -> "__end__"

\* an edge from the planner to the chatbot
workflow_edge_planner_chatbot(node) ==
  CASE node = "matcher" -> "chatbot"
    [] node = "planner" -> "chatbot"
    [] OTHER            -> "__end__"

\* workflow.add_edge("matcher", "chatbot"), workflow.add_edge("planner", END);
\* the summarizer has no outgoing edge, so the run ends after it
workflow_edge(node) ==
  CASE node = "matcher" -> "chatbot"
    [] node = "planner" -> "__end__"
    [] OTHER            -> "__end__"

\* the position of chat_step once the workflow has named its next node
NodePc(node) == IF node = "__end__" THEN "return" ELSE node

----------------------------------------------------------------------------
(* Planner: planner_graph, query_or_respond, call_planner *)

\* real_profile = {} at module level, the name query_or_respond's prompt reads
module_real_profile == EmptyDict

\* state.get("real_profile", {}) in call_planner, on the PlannerState that
\* run_planner builds from master_state.get("planner", {})
planner_state_profile == EmptyDict

\* tools_condition: the tools node when the last message has tool calls
tools_condition(toolCalls) == IF toolCalls THEN "tools" ELSE "END"

\* an edge from the tools node back to the query node
planner_edge_requery(node) ==
  CASE node = "tools" -> "query_or_respond"
    [] OTHER          -> "END"

\* planner_graph.add_edge("tools", "call_planner"), add_edge("call_planner", END)
planner_edge(node) ==
  CASE node = "tools" -> "call_planner"
    [] OTHER          -> "END"

\* the position of chat_step once planner_graph has named its next node
PlannerPc(node) ==
  CASE node = "END"              -> NodePc(workflow_edge("planner"))
    [] node = "query_or_respond" -> "planner"
    [] OTHER                     -> node

----------------------------------------------------------------------------
(* Template Matcher: call_matcher *)

\* .content.strip().lower() of the classifier's answer
StripLower(text) ==
  CASE text = " Spend\n" -> "spend"
    [] text = "LEAVE"     -> "leave"
    [] OTHER              -> text

\* an unknown category falls back to the first template instead of "default"
MatchCategoryFirst(text) ==
  LET category == StripLower(text)
  IN  IF category \notin TemplateNames THEN "spend" ELSE category

MatchCategory(text) ==
  LET category == StripLower(text)
  IN  IF category \notin TemplateNames THEN "default" ELSE category

RECURSIVE AddQuestions(_, _)
\* for field, info in prompt_infos[category]["questions"].items():
\*     shadow_profile[field] = {"collected": False, "importance": importance}
AddQuestions(profile, questions) ==
  IF questions = <<>> THEN profile
  ELSE AddQuestions(
         DictSet(profile, Head(questions).field,
                 [field |-> Head(questions).field, collected |-> FALSE,
                  importance |-> Head(questions).importance]),
         Tail(questions))

\* replaces the tracked fields by the template's
MatcherProfileReplacing(profile, category) == prompt_infos[category]

MatcherProfile(profile, category) == AddQuestions(profile, prompt_infos[category])

----------------------------------------------------------------------------
(* Interview Agent: call_chatbot, run_chatbot *)

RECURSIVE Without(_, _)
Without(messages, kind) ==
  IF messages = <<>> THEN <<>>
  ELSE IF Head(messages) = kind THEN Without(Tail(messages), kind)
       ELSE <<Head(messages)>> \o Without(Tail(messages), kind)

\* prepends the persona instruction on every call
WithSystemPromptAlways(messages) == <<"system">> \o messages

\* the persona instruction is prepended unless it is already the first message
WithSystemPrompt(messages) ==
  IF messages = <<>> \/ Head(messages) # "system" THEN <<"system">> \o messages
  ELSE messages

MissingFields(profile) == {profile[i].field : i \in {j \in DOMAIN profile : ~profile[j].collected}}

\* if not normalize_collected(collected_val)
NotCollected(info) == ~info.collected

RECURSIVE InsertByImportance(_, _)
\* info goes behind the entries whose importance is at least its own
InsertByImportance(sorted, info) ==
  IF sorted = <<>> THEN <<info>>
  ELSE IF Head(sorted).importance >= info.importance
    THEN <<Head(sorted)>> \o InsertByImportance(Tail(sorted), info)
    ELSE <<info>> \o sorted

RECURSIVE SortByImportance(_)
\* list.sort(key=lambda x: x[1], reverse=True): descending, and stable
SortByImportance(list) ==
  IF list = <<>> THEN <<>>
  ELSE InsertByImportance(SortByImportance(SubSeq(list, 1, Len(list) - 1)),
                          list[Len(list)])

\* the uncollected fields as shadow_profile.items() gives them, not sorted
missing_fields_unsorted(profile) == SelectSeq(profile, NotCollected)

\* missing_fields: the uncollected (field, importance) pairs, sorted
missing_fields(profile) == SortByImportance(SelectSeq(profile, NotCollected))

\* replies of model_chatbot
ReplyTexts ==
  {"All necessary info collected. Proceeding to generate your plan.",
   "  ALL NECESSARY INFO COLLECTED.\n",
   "I have everything I need to build your plan.",
   "What is your age?"}

\* reply_text.strip().lower().startswith("all necessary info collected")
StartsWithCollected(text) ==
  text \in {"All necessary info collected. Proceeding to generate your plan.",
            "  ALL NECESSARY INFO COLLECTED.\n"}

\* appends the model's reply whatever it says
appended_message_unchecked(profile, text) == <<"model", text>>

\* the content of the AIMessage appended: the override text, which names
\* missing_fields[0][0] (printed with spaces for underscores), or the model's reply
appended_message(profile, text) ==
  IF missing_fields(profile) # <<>> /\ StartsWithCollected(text)
    THEN <<"Could you please provide your", missing_fields(profile)[1].field>>
    ELSE <<"model", text>>

\* marks the field it asks for as collected
chatbot_shadow_profile_marking(profile) ==
  IF missing_fields(profile) = <<>> THEN profile
  ELSE [i \in DOMAIN profile |->
          IF profile[i].field = missing_fields(profile)[1].field
            THEN [profile[i] EXCEPT !.collected = TRUE] ELSE profile[i]]

\* shadow_profile = state.get("shadow_profile", {}) or {}, stored back by
\* call_chatbot and copied to the master state by run_chatbot
chatbot_shadow_profile(profile) == IF profile = <<>> THEN <<>> ELSE profile

\* the reply appended: the deterministic fallback question when the model claims
\* completion while fields are missing, the model's reply otherwise
ChatbotReply(profile, claimsComplete) ==
  IF MissingFields(profile) # {} /\ claimsComplete THEN "fallback" ELSE "model"

call_chatbot(messages) ==
  Without(WithSystemPrompt(messages), "profile")
    \o <<"profile", "ai">>

----------------------------------------------------------------------------
(* Summarizer: run_summarizer *)

\* keeps the last two messages
SummarizedMessagesLastTwo(messages) ==
  <<"system", "summary">> \o SubSeq(messages, Len(messages) - 1, Len(messages))

\* [system_prompt_chatbot] + [HumanMessage("Summary:" + summary)] + chatbot_messages[-1:]
SummarizedMessages(messages) ==
  <<"system", "summary">> \o
    (IF messages = <<>> THEN <<>> ELSE <<messages[Len(messages)]>>)

----------------------------------------------------------------------------
(* chat_step's result *)

NotInProfile == <<"False", 0>>

\* returns real_profile as it is
profile_data_untracked(profile, values) == values

\* {field: state["real_profile"].get(field, False) for field in state["shadow_profile"]}
profile_data(profile, values) ==
  [f \in Keys(profile) |-> IF f \in DOMAIN values THEN values[f] ELSE NotInProfile]

\* always the last chatbot message
response_text_chatbot_only(prevIsLast, plannerLast, chatbotReply) ==
  <<"assistant", chatbotReply>>

\* the planner's last message through call_formatter when the last chatbot message is
\* the one returned before, the last chatbot message otherwise
response_text(prevIsLast, plannerLast, chatbotReply) ==
  IF prevIsLast THEN <<"formatted", plannerLast>> ELSE <<"assistant", chatbotReply>>

----------------------------------------------------------------------------
(* Inputs of the model *)

\* keys the extractor may name that no initial field has
ExtraKeys == {"retirement_age"}

RECURSIVE SubsetsUpTo(_, _)
\* the subsets of U with at most n elements
SubsetsUpTo(U, n) ==
  IF n = 0 THEN {{}}
  ELSE LET smaller == SubsetsUpTo(U, n - 1)
       IN  smaller \cup {S \cup {k} : S \in smaller, k \in U}

\* fields the extractor may name again once they are collected
NamedAgain == {"goal", "location"}

\* the key sets of the extractor's objects: at most MaxRespKeys keys, tracked or
\* not, or every missing field at once
RespKeySets(profile) ==
  SubsetsUpTo(MissingFields(profile) \cup NamedAgain \cup ExtraKeys, MaxRespKeys)
    \cup {MissingFields(profile)}

\* fields for which the extractor may return several values
SeveralValued == {"location"}

\* the objects with key set S
ObjectsOver(S) ==
  IF S \cap SeveralValued = {}
    THEN {[k \in S |-> <<"val", 1>>]}
    ELSE {[k \in S |-> IF k \in SeveralValued THEN v ELSE <<"val", 1>>] : v \in Values}

ExtractorObjects(profile) == UNION {ObjectsOver(S) : S \in RespKeySets(profile)}

\* For an answer that is no JSON object, obj is what the text is about (a reading
\* of it that the code never makes): every missing field.
NonObjectKinds == {"invalid", "falsy", "truthy"}

ExtractorResponses(profile) ==
  {[kind |-> "object", obj |-> o] : o \in ExtractorObjects(profile)}
    \cup {[kind |-> k, obj |-> [f \in MissingFields(profile) |-> <<"val", 1>>]] :
             k \in NonObjectKinds}

ClassifierTexts == {"spend", " Spend\n", "leave", "LEAVE", "save", "donate", "default",
                    "travel", ""}

----------------------------------------------------------------------------
(* State after start_session *)

NoResponse == [kind |-> "none", obj |-> EmptyDict]

NoSnapshot ==
  [shadow_profile |-> <<>>, real_profile |-> EmptyDict,
   extractor |-> [all_fields_filled |-> FALSE, conversation_title |-> NoTitle],
   conversation_title |-> NoTitle]

\* session ids: start_chat takes str(time.time())
SessionIds == {"session1", "session2"}
DefaultSession == "session1"
NoSession == "<none>"

\* what a chat_step call holds once graph.invoke has read its input: the values of
\* state that are rebuilt on every update (shadow_profile and real_profile are
\* dictionaries shared with state and changed in place)
NoPending ==
  [status |-> "none", human |-> <<"msg", 0>>, chatbot_messages |-> <<>>,
   selected_template |-> NoTemplate, conversation_title |-> NoTitle,
   extractor |-> [all_fields_filled |-> FALSE, conversation_title |-> NoTitle],
   summary |-> <<"None", 0>>, planner_last |-> "none", real_profile_shared |-> FALSE,
   overwritten |-> <<>>]

NoText == "<none>"

NoOutcome == [status |-> "none"]

\* what call_extractor leaves for the router
extractor_trace == <<ext_response, before, title_requested>>

\* what the planner nodes did
planner_trace == <<planner_run, planner_profile>>

\* the variables that describe the chat_step under way
turn_vars == <<agents_run, reply, classifier_text, extractor_trace, planner_trace>>

\* who called, and who else is calling
request_vars == <<state_session, turn_session, pending>>

\* the session's profile
profile_vars == <<shadow_profile, real_profile, extractor, conversation_title>>

\* nothing of the chat_step under way is left
TurnCleared ==
  /\ agents_run' = <<>>
  /\ reply' = "none"
  /\ classifier_text' = NoText
  /\ ext_response' = NoResponse
  /\ before' = NoSnapshot
  /\ title_requested' = FALSE
  /\ planner_run' = <<>>
  /\ planner_profile' = <<>>

\* the node after the extractor has taken over
ExtractorTraceCleared ==
  /\ ext_response' = NoResponse
  /\ before' = NoSnapshot
  /\ title_requested' = FALSE

Init ==
  /\ pc = "idle"
  /\ last_human = <<"msg", 0>>
  /\ shadow_profile = initial_shadow_profile
  /\ real_profile = EmptyDict
  /\ extractor = [all_fields_filled |-> FALSE, conversation_title |-> NoTitle]
  /\ selected_template = NoTemplate
  /\ conversation_title = InitialTitle
  /\ chatbot_messages = <<"system", "ai">>
  /\ summary = <<"None", 0>>
  /\ planner_last = "none"
  /\ reply = "none"
  /\ prev_is_last = FALSE
  /\ agents_run = <<>>
  /\ ext_response = NoResponse
  /\ before = NoSnapshot
  /\ title_requested = FALSE
  /\ classifier_text = NoText
  /\ planner_run = <<>>
  /\ planner_profile = <<>>
  /\ state_session = DefaultSession
  /\ turn_session = NoSession
  /\ pending = NoPending
  /\ outcome = [status |-> "started"]

----------------------------------------------------------------------------
(* Operations *)

\* a start_session that keeps the profile of the session it replaces
StartSessionKeepingProfile ==
  /\ pc = "idle"
  /\ pc' = "idle"
  /\ last_human' = <<"msg", 0>>
  /\ extractor' = [all_fields_filled |-> FALSE, conversation_title |-> NoTitle]
  /\ conversation_title' = InitialTitle
  /\ chatbot_messages' = <<"system", "ai">>
  /\ summary' = <<"None", 0>>
  /\ planner_last' = "none"
  /\ prev_is_last' = FALSE
  /\ TurnCleared
  /\ outcome' = [status |-> "started"]
  /\ state_session' = DefaultSession
  /\ turn_session' = NoSession
  /\ UNCHANGED <<shadow_profile, real_profile, selected_template, pending>>

\* start_session: a fresh MasterState replaces the process-wide one, whatever
\* session_id is; prev_assistant_message is a module global and is not reset
start_session(session_id) ==
  /\ pc = "idle"
  /\ pc' = "idle"
  /\ last_human' = <<"msg", 0>>
  /\ shadow_profile' = initial_shadow_profile
  /\ real_profile' = EmptyDict
  /\ extractor' = [all_fields_filled |-> FALSE, conversation_title |-> NoTitle]
  /\ selected_template' = NoTemplate
  /\ conversation_title' = InitialTitle
  /\ chatbot_messages' = <<"system", "ai">>
  /\ summary' = <<"None", 0>>
  /\ planner_last' = "none"
  /\ prev_is_last' = FALSE
  /\ TurnCleared
  /\ outcome' = [status |-> "started"]
  /\ state_session' = session_id
  /\ turn_session' = NoSession
  /\ UNCHANGED pending

\* start_session for the one session of Spec
StartSession == start_session(DefaultSession)

\* chat_step, up to graph.invoke: the user's message is appended to state["messages"],
\* the one process-wide state, whatever session_id is
chat_step_enter(msg, session_id) ==
  /\ pc = "idle"
  /\ pc' = "extractor"
  /\ last_human' = msg
  /\ TurnCleared
  /\ outcome' = NoOutcome
  /\ turn_session' = session_id
  /\ UNCHANGED <<profile_vars, selected_template, chatbot_messages, summary,
                 planner_last, prev_is_last, state_session, pending>>

\* chat_step for the one session of Spec
StartTurn(msg) == chat_step_enter(msg, DefaultSession)

\* an exception leaves graph.invoke and chat_step; answer_question turns it into
\* HTTP 500. The process-wide state keeps what was assigned in place before it.
Raise(error) ==
  /\ pc' = "idle"
  /\ outcome' = [status |-> "error", error |-> error]

\* node "extractor" (run_extractor, call_extractor) and its conditional edge
RunExtractor(raw, title) ==
  /\ pc = "extractor"
  /\ agents_run' = Append(agents_run, "extractor")
  /\ ext_response' = raw
  /\ before' = [shadow_profile |-> shadow_profile, real_profile |-> real_profile,
                extractor |-> extractor, conversation_title |-> conversation_title]
  /\ IF ExtractorRaises(raw)
       THEN /\ Raise(IF raw.kind = "invalid" THEN "JSONDecodeError" ELSE "AttributeError")
            /\ title_requested' = FALSE
            /\ UNCHANGED profile_vars
       ELSE LET none == ExtractorReturnsNone(raw)
                sp == IF none THEN shadow_profile
                      ELSE MarkCollected(shadow_profile, raw.obj)
                rp == IF none THEN real_profile
                      ELSE MergeProfile(real_profile, raw.obj, last_human)
                ex == IF none THEN extractor
                      ELSE [all_fields_filled |-> AllFieldsFilled(sp),
                            conversation_title |->
                              ExtractorTitle(extractor.conversation_title, raw.obj, title)]
                route == route_decision_extractor(sp, selected_template)
            IN  /\ shadow_profile' = sp
                /\ real_profile' = rp
                /\ extractor' = ex
                /\ conversation_title' = ex.conversation_title
                /\ title_requested' = (~none /\ TitleRequested(raw.obj))
                /\ IF route = "ZeroDivisionError"
                     THEN Raise(route)
                     ELSE pc' = NodePc(route) /\ UNCHANGED outcome
  /\ UNCHANGED <<last_human, selected_template, chatbot_messages, summary, planner_last,
                 reply, prev_is_last, classifier_text, planner_trace, request_vars>>

\* node "matcher" (run_matcher, call_matcher), then the edge to "chatbot"
RunMatcher(text) ==
  /\ pc = "matcher"
  /\ agents_run' = Append(agents_run, "matcher")
  /\ classifier_text' = text
  /\ selected_template' = MatchCategory(text)
  /\ shadow_profile' = MatcherProfile(shadow_profile, MatchCategory(text))
  /\ ExtractorTraceCleared
  /\ pc' = NodePc(workflow_edge("matcher"))
  /\ UNCHANGED <<last_human, real_profile, extractor, conversation_title,
                 chatbot_messages, summary, planner_last, reply, prev_is_last,
                 planner_trace, request_vars, outcome>>

\* node "chatbot" (run_chatbot, call_chatbot) and its conditional edge
RunChatbot(claimsComplete) ==
  /\ pc = "chatbot"
  /\ agents_run' = Append(agents_run, "chatbot")
  /\ chatbot_messages' = call_chatbot(Append(chatbot_messages, "human"))
  /\ reply' = ChatbotReply(shadow_profile, claimsComplete)
  /\ prev_is_last' = FALSE
  /\ ExtractorTraceCleared
  /\ classifier_text' = NoText
  /\ shadow_profile' = chatbot_shadow_profile(shadow_profile)
  /\ pc' = NodePc(route_decision_summarize(chatbot_messages'))
  /\ UNCHANGED <<last_human, real_profile, extractor, conversation_title,
                 selected_template, summary, planner_last, planner_trace, request_vars,
                 outcome>>

\* node "summarizer" (run_summarizer, call_summarizer), then the end of the run
RunSummarizer(text) ==
  /\ pc = "summarizer"
  /\ agents_run' = Append(agents_run, "summarizer")
  /\ summary' = text
  /\ chatbot_messages' = SummarizedMessages(chatbot_messages)
  /\ pc' = NodePc(workflow_edge("summarizer"))
  /\ UNCHANGED <<last_human, profile_vars, selected_template, planner_last, reply,
                 prev_is_last, classifier_text, extractor_trace, planner_trace,
                 request_vars, outcome>>

\* node "planner" (run_planner): query_or_respond and tools_condition
RunPlannerQuery(toolCalls) ==
  /\ pc = "planner"
  /\ agents_run' = Append(agents_run, "planner")
  /\ planner_run' = Append(planner_run, "query_or_respond")
  /\ planner_profile' = Append(planner_profile, module_real_profile)
  /\ planner_last' = IF toolCalls THEN "tool_calls" ELSE "query_reply"
  /\ ExtractorTraceCleared
  /\ pc' = PlannerPc(tools_condition(toolCalls))
  /\ UNCHANGED <<last_human, profile_vars, selected_template, chatbot_messages, summary,
                 reply, prev_is_last, classifier_text, request_vars, outcome>>

\* planner node "tools": the retrieve tool answers the requested queries
RunPlannerTools ==
  /\ pc = "tools"
  /\ planner_run' = Append(planner_run, "tools")
  /\ planner_last' = "tool"
  /\ pc' = PlannerPc(planner_edge("tools"))
  /\ UNCHANGED <<last_human, profile_vars, selected_template, chatbot_messages, summary,
                 prev_is_last, agents_run, reply, classifier_text, extractor_trace,
                 planner_profile, request_vars, outcome>>

\* planner node "call_planner", then END of the planner and of the workflow
RunCallPlanner ==
  /\ pc = "call_planner"
  /\ planner_run' = Append(planner_run, "call_planner")
  /\ planner_profile' = Append(planner_profile, planner_state_profile)
  /\ planner_last' = "plan"
  /\ pc' = PlannerPc(planner_edge("call_planner"))
  /\ UNCHANGED <<last_human, profile_vars, selected_template, chatbot_messages, summary,
                 prev_is_last, agents_run, reply, classifier_text, extractor_trace,
                 request_vars, outcome>>

\* chat_step, after graph.invoke
ChatStepReturn ==
  /\ pc = "return"
  /\ pc' = "idle"
  /\ prev_is_last' = TRUE
  /\ outcome' = [status |-> "ok",
                 response |-> response_text(prev_is_last, planner_last, reply),
                 real_profile |-> profile_data(shadow_profile, real_profile),
                 conversation_title |-> conversation_title]
  /\ TurnCleared
  /\ pending' = IF pending.status = "running" THEN NoPending ELSE pending
  /\ UNCHANGED <<last_human, profile_vars, selected_template, chatbot_messages, summary,
                 planner_last, state_session, turn_session>>

Next ==
  \/ StartSession
  \/ \E msg \in UserMsgs : StartTurn(msg)
  \/ \E raw \in ExtractorResponses(shadow_profile), title \in Titles :
       RunExtractor(raw, title)
  \/ \E text \in ClassifierTexts : RunMatcher(text)
  \/ \E claimsComplete \in BOOLEAN : RunChatbot(claimsComplete)
  \/ \E text \in Summaries : RunSummarizer(text)
  \/ \E toolCalls \in BOOLEAN : RunPlannerQuery(toolCalls)
  \/ RunPlannerTools
  \/ RunCallPlanner
  \/ ChatStepReturn

Spec == Init /\ [][Next]_vars

----------------------------------------------------------------------------
(* One session in which every answer brings a missing field *)

\* the extractor's objects when each names one field that is still missing, or all
\* of them; the empty object once nothing is missing
ProgressResponses(profile) ==
  IF MissingFields(profile) = {}
    THEN {[kind |-> "object", obj |-> EmptyDict]}
    ELSE {[kind |-> "object", obj |-> [f \in S |-> <<"val", 1>>]] :
            S \in {{f} : f \in MissingFields(profile)} \cup {MissingFields(profile)}}

LiveNext ==
  \/ \E msg \in UserMsgs : StartTurn(msg)
  \/ \E raw \in ProgressResponses(shadow_profile), title \in Titles :
       RunExtractor(raw, title)
  \/ \E text \in ClassifierTexts : RunMatcher(text)
  \/ \E claimsComplete \in BOOLEAN : RunChatbot(claimsComplete)
  \/ \E text \in Summaries : RunSummarizer(text)
  \/ \E toolCalls \in BOOLEAN : RunPlannerQuery(toolCalls)
  \/ RunPlannerTools
  \/ RunCallPlanner
  \/ ChatStepReturn

\* the user keeps answering and every node that is started returns
LiveSpec == Init /\ [][LiveNext]_vars /\ WF_vars(LiveNext)

----------------------------------------------------------------------------
(* Several sessions, two requests at once, and model calls that fail *)

\* the extractor's answers: every missing field, or the goal alone
FaultResponses(profile) ==
  {[kind |-> "object", obj |-> [f \in MissingFields(profile) |-> <<"val", 1>>]],
   [kind |-> "object", obj |-> [f \in {"goal"} |-> <<"val", 1>>]]}

FaultClassifierTexts == {"spend"}

\* start_chat for any session id, while no other request is waiting
FaultStartSession(session_id) ==
  /\ pending.status = "none"
  /\ start_session(session_id)

\* answer_question for any session id, while no other request is waiting
FaultStartTurn(msg, session_id) ==
  /\ pending.status = "none"
  /\ chat_step_enter(msg, session_id)

\* a second answer_question while the first is in graph.invoke: run_in_threadpool
\* starts chat_step on another thread with no lock; its graph.invoke reads the
\* process-wide state as it is now, before the first request has replaced it
ConcurrentRequest(msg) ==
  /\ pc = "extractor"
  /\ pending.status = "none"
  /\ pending' = [status |-> "waiting", human |-> msg,
                 chatbot_messages |-> chatbot_messages,
                 selected_template |-> selected_template,
                 conversation_title |-> conversation_title,
                 extractor |-> extractor,
                 summary |-> summary,
                 planner_last |-> planner_last,
                 real_profile_shared |-> (DOMAIN real_profile # {}),
                 overwritten |-> <<>>]
  /\ UNCHANGED <<pc, last_human, profile_vars, selected_template, chatbot_messages,
                 summary, planner_last, prev_is_last, turn_vars, state_session,
                 turn_session, outcome>>

\* the second request runs its nodes once the first has returned: it works on the
\* values its graph.invoke read, and on the dictionaries it shares with the first
\* (shadow_profile, and real_profile once the extractor's state holds it);
\* state = graph.invoke(state) will then replace what the first request stored
ResumePending ==
  /\ pc = "idle"
  /\ pending.status = "waiting"
  /\ pc' = "extractor"
  /\ last_human' = pending.human
  /\ chatbot_messages' = pending.chatbot_messages
  /\ selected_template' = pending.selected_template
  /\ conversation_title' = pending.conversation_title
  /\ extractor' = pending.extractor
  /\ summary' = pending.summary
  /\ planner_last' = pending.planner_last
  /\ real_profile' = IF pending.real_profile_shared THEN real_profile ELSE EmptyDict
  /\ prev_is_last' = IF pending.chatbot_messages = chatbot_messages
                       THEN prev_is_last ELSE FALSE
  /\ TurnCleared
  /\ outcome' = NoOutcome
  /\ pending' = [pending EXCEPT !.status = "running", !.overwritten = chatbot_messages]
  /\ UNCHANGED <<shadow_profile, state_session, turn_session>>

\* a model call raises in the extractor, before anything is marked, or in the node
\* that follows the extractor: graph.invoke raises, state = ... is not executed and
\* answer_question answers HTTP 500. The values that nodes return are dropped; what
\* call_extractor wrote in place into the dictionaries of state stays.
ModelCallFails ==
  /\ \/ pc = "extractor"
     \/ pc \in {"matcher", "chatbot", "planner"} /\ agents_run = <<"extractor">>
  /\ Raise("ModelCallError")
  /\ before' = IF pc = "extractor"
                 THEN [shadow_profile |-> shadow_profile, real_profile |-> real_profile,
                       extractor |-> extractor,
                       conversation_title |-> conversation_title]
                 ELSE before
  /\ extractor' = IF pc = "extractor" THEN extractor ELSE before.extractor
  /\ conversation_title' =
       IF pc = "extractor" THEN conversation_title ELSE before.conversation_title
  /\ real_profile' =
       IF pc # "extractor" /\ DOMAIN before.real_profile = {}
         THEN EmptyDict ELSE real_profile
  /\ pending' = IF pending.status = "running" THEN NoPending ELSE pending
  /\ UNCHANGED <<last_human, shadow_profile, selected_template, chatbot_messages,
                 summary, planner_last, reply, prev_is_last, agents_run, ext_response,
                 title_requested, classifier_text, planner_trace, state_session,
                 turn_session>>

FaultNext ==
  \/ \E session_id \in SessionIds : FaultStartSession(session_id)
  \/ \E msg \in UserMsgs, session_id \in SessionIds : FaultStartTurn(msg, session_id)
  \/ \E msg \in UserMsgs : ConcurrentRequest(msg)
  \/ ResumePending
  \/ ModelCallFails
  \/ \E raw \in FaultResponses(shadow_profile), title \in Titles :
       RunExtractor(raw, title)
  \/ \E text \in FaultClassifierTexts : RunMatcher(text)
  \/ \E claimsComplete \in BOOLEAN : RunChatbot(claimsComplete)
  \/ \E text \in Summaries : RunSummarizer(text)
  \/ \E toolCalls \in BOOLEAN : RunPlannerQuery(toolCalls)
  \/ RunPlannerTools
  \/ RunCallPlanner
  \/ ChatStepReturn

FaultSpec == Init /\ [][FaultNext]_vars

----------------------------------------------------------------------------
(* The router on its own *)

\* the largest number of fields of a shadow_profile handed to the router
MaxFields == 2

\* the i-th field of a profile, with any importance and either flag
RouterEntries(i) ==
  {[field |-> initial_shadow_profile[i].field, collected |-> c, importance |-> m] :
     c \in BOOLEAN, m \in 1..MAXRATING}

RECURSIVE RouterMapsOfLen(_)
RouterMapsOfLen(n) ==
  IF n = 0 THEN {<<>>}
  ELSE {Append(profile, info) : profile \in RouterMapsOfLen(n - 1), info \in RouterEntries(n)}

\* the values of state["shadow_profile"] the router is applied to, the empty
\* dictionary among them
RouterMaps == UNION {RouterMapsOfLen(n) : n \in 0..MaxFields}

\* a MasterState about to be routed
RouterInit ==
  /\ pc = "router"
  /\ shadow_profile \in RouterMaps
  /\ selected_template \in {NoTemplate, "spend"}
  /\ last_human = <<"msg", 0>>
  /\ real_profile = EmptyDict
  /\ extractor = [all_fields_filled |-> FALSE, conversation_title |-> NoTitle]
  /\ conversation_title = InitialTitle
  /\ chatbot_messages = <<"system", "ai">>
  /\ summary = <<"None", 0>>
  /\ planner_last = "none"
  /\ reply = "none"
  /\ prev_is_last = FALSE
  /\ agents_run = <<>>
  /\ ext_response = NoResponse
  /\ before = NoSnapshot
  /\ title_requested = FALSE
  /\ classifier_text = NoText
  /\ planner_run = <<>>
  /\ planner_profile = <<>>
  /\ state_session = DefaultSession
  /\ turn_session = NoSession
  /\ pending = NoPending
  /\ outcome = NoOutcome

\* route_decision_extractor(state): the two sums and needsCriticalInfo of the loop,
\* the division, and the node returned; the division by a zero totImportance raises
ApplyRouter ==
  /\ pc = "router"
  /\ pc' = "routed"
  /\ LET route == route_decision_extractor(shadow_profile, selected_template)
     IN  outcome' =
           IF route = "ZeroDivisionError"
             THEN [status |-> "error", error |-> route]
             ELSE [status |-> "routed", node |-> route,
                   totImportance |-> totImportance(shadow_profile),
                   totFilledImportance |-> totFilledImportance(shadow_profile),
                   needsCriticalInfo |-> needsCriticalInfo(shadow_profile),
                   reached |-> CompletenessReached(shadow_profile)]
  /\ UNCHANGED <<last_human, profile_vars, selected_template, chatbot_messages, summary,
                 planner_last, prev_is_last, turn_vars, request_vars>>

RouterNext == ApplyRouter


RouterSpec == RouterInit /\ [][RouterNext]_vars

----------------------------------------------------------------------------
(* The Interview Agent on its own *)

\* every field of profile collected
AllCollected(profile) == [i \in DOMAIN profile |-> [profile[i] EXCEPT !.collected = TRUE]]

\* the profiles handed to the Interview Agent: the router's, and the profile
\* after each template has been selected
ChatbotProfiles ==
  RouterMaps \cup {MatcherProfile(AllCollected(initial_shadow_profile), category) :
                     category \in TemplateNames}

ChatbotHistories ==
  {<<"system", "ai">>, <<"system", "ai", "human", "profile", "ai">>,
   <<"system", "summary", "ai">>}

\* a ChatbotState about to be answered
ChatbotInit ==
  /\ pc = "chatbot"
  /\ shadow_profile \in ChatbotProfiles
  /\ chatbot_messages \in ChatbotHistories
  /\ selected_template = NoTemplate
  /\ last_human = <<"msg", 1>>
  /\ real_profile = EmptyDict
  /\ extractor = [all_fields_filled |-> FALSE, conversation_title |-> NoTitle]
  /\ conversation_title = InitialTitle
  /\ summary = <<"None", 0>>
  /\ planner_last = "none"
  /\ reply = "none"
  /\ prev_is_last = FALSE
  /\ agents_run = <<>>
  /\ ext_response = NoResponse
  /\ before = NoSnapshot
  /\ title_requested = FALSE
  /\ classifier_text = NoText
  /\ planner_run = <<>>
  /\ planner_profile = <<>>
  /\ state_session = DefaultSession
  /\ turn_session = NoSession
  /\ pending = NoPending
  /\ outcome = NoOutcome

\* run_chatbot and call_chatbot for one reply of the model
ApplyChatbot(text) ==
  /\ pc = "chatbot"
  /\ pc' = "replied"
  /\ chatbot_messages' = call_chatbot(Append(chatbot_messages, "human"))
  /\ reply' = ChatbotReply(shadow_profile, StartsWithCollected(text))
  /\ outcome' = [status |-> "replied", text |-> text,
                 missing_fields |-> missing_fields(shadow_profile),
                 appended |-> appended_message(shadow_profile, text),
                 messages |-> chatbot_messages]
  /\ shadow_profile' = chatbot_shadow_profile(shadow_profile)
  /\ UNCHANGED <<last_human, real_profile, extractor, conversation_title,
                 selected_template, summary, planner_last,
                 prev_is_last, agents_run, classifier_text, extractor_trace,
                 planner_trace, request_vars>>

ChatbotNext == \E text \in ReplyTexts : ApplyChatbot(text)

ChatbotSpec == ChatbotInit /\ [][ChatbotNext]_vars

----------------------------------------------------------------------------
(* Properties *)

\* the extractor node has run and the router has named the next node
AfterExtraction == agents_run = <<"extractor">> /\ pc \in {"matcher", "planner", "chatbot"}

\* the extractor node was the last node to run, whether or not it raised
ExtractorRan == ext_response.kind # "none"

\* the matcher node has just run
AfterMatcher == agents_run = <<"extractor", "matcher">>

CriticalMissing(profile) ==
  \E i \in DOMAIN profile : profile[i].importance = 5 /\ ~profile[i].collected

RatioIsOne(profile) == totFilledImportance(profile) = totImportance(profile)

CollectedFields(profile) ==
  {profile[i].field : i \in {j \in DOMAIN profile : profile[j].collected}}

\* C1: after the extractor the router names the matcher when no critical field is
\* missing, the ratio is 1 and no template is selected; the planner when a template
\* is selected, no critical field is missing and the ratio is 1; the chatbot
\* whenever a critical field is missing.
C1_RouterDecision ==
  AfterExtraction =>
    /\ (~CriticalMissing(shadow_profile) /\ RatioIsOne(shadow_profile)
          /\ selected_template = NoTemplate) => pc = "matcher"
    /\ (selected_template # NoTemplate /\ ~CriticalMissing(shadow_profile)
          /\ RatioIsOne(shadow_profile)) => pc = "planner"
    /\ CriticalMissing(shadow_profile) => pc = "chatbot"

C1_Witness ==
  /\ AfterExtraction
  /\ pc = "planner"
  /\ selected_template # NoTemplate
  /\ ~CriticalMissing(shadow_profile)
  /\ RatioIsOne(shadow_profile)

\* C2: the planner never runs while a tracked field of importance 5 is uncollected.
C2_NoPlannerWhileCritical ==
  pc \in {"planner", "tools", "call_planner"} => ~CriticalMissing(shadow_profile)

\* a template is selected, more than half of the weight is collected and a critical
\* field is missing: the router has named the chatbot
C2_Witness ==
  /\ AfterExtraction
  /\ selected_template # NoTemplate
  /\ CriticalMissing(shadow_profile)
  /\ 2 * totFilledImportance(shadow_profile) > totImportance(shadow_profile)
  /\ pc = "chatbot"

\* C3, as claimed: with no template selected the router names the matcher, also
\* when extraction has marked only the goal.
C3_Original ==
  (AfterExtraction /\ selected_template = NoTemplate) => pc = "matcher"

\* C3, amended: with no template selected the router names the matcher exactly when
\* every tracked field is collected, and the chatbot otherwise; the matcher is
\* followed by the chatbot; with only the goal collected the router names the chatbot.
C3_MatcherOnlyWhenComplete ==
  /\ (AfterExtraction /\ selected_template = NoTemplate) =>
        /\ pc = "matcher" <=> CollectedFields(shadow_profile) = Keys(shadow_profile)
        /\ pc # "matcher" => pc = "chatbot"
        /\ CollectedFields(shadow_profile) = {"goal"} => pc = "chatbot"
  /\ AfterMatcher => pc = "chatbot"

C3_Witness ==
  /\ AfterExtraction
  /\ selected_template = NoTemplate
  /\ before.real_profile = EmptyDict
  /\ CollectedFields(shadow_profile) = {"goal"}
  /\ pc = "chatbot"

\* C4, as claimed: after the matcher the tracked fields are exactly the template's,
\* all uncollected.
C4_Original ==
  AfterMatcher =>
    /\ Keys(shadow_profile) = Keys(prompt_infos[selected_template])
    /\ CollectedFields(shadow_profile) = {}

\* C4, amended: after the matcher the tracked fields are the five initial fields,
\* still collected and with their importance, followed by the template's fields,
\* uncollected and with the template's importance; all ten count for readiness.
C4_TemplateFieldsAdded ==
  AfterMatcher =>
    /\ selected_template \in TemplateNames
    /\ Len(shadow_profile)
         = Len(initial_shadow_profile) + Len(prompt_infos[selected_template])
    /\ \A i \in DOMAIN initial_shadow_profile :
         shadow_profile[i] = [initial_shadow_profile[i] EXCEPT !.collected = TRUE]
    /\ \A i \in DOMAIN prompt_infos[selected_template] :
         shadow_profile[Len(initial_shadow_profile) + i]
           = prompt_infos[selected_template][i]
    /\ totImportance(shadow_profile)
         = totImportance(initial_shadow_profile)
             + totImportance(prompt_infos[selected_template])

C4_Witness ==
  /\ AfterMatcher
  /\ selected_template = "spend"
  /\ Keys(initial_shadow_profile) \subseteq Keys(shadow_profile)

\* C5, as claimed: after the matcher every template field whose key is already in
\* real_profile is marked collected.
C5_Original ==
  AfterMatcher =>
    \A f \in Keys(prompt_infos[selected_template]) :
      f \in DOMAIN real_profile => Item(shadow_profile, f).collected

\* C6: the extractor turns a collected flag from false to true only for a tracked
\* field that is a key of the returned object; every other flag and the set of
\* tracked fields stay as they were.
C6_MarksOnlyReturnedTrackedFields ==
  ExtractorRan =>
    /\ Keys(shadow_profile) = Keys(before.shadow_profile)
    /\ \A f \in Keys(shadow_profile) :
         \/ Item(shadow_profile, f).collected = Item(before.shadow_profile, f).collected
         \/ /\ ~Item(before.shadow_profile, f).collected
            /\ Item(shadow_profile, f).collected
            /\ ext_response.kind = "object"
            /\ f \in DOMAIN ext_response.obj

C6_Witness ==
  /\ ExtractorRan
  /\ \E f \in Keys(shadow_profile) :
       /\ ~Item(before.shadow_profile, f).collected
       /\ Item(shadow_profile, f).collected
  /\ \E f \in Keys(shadow_profile) :
       /\ ~Item(shadow_profile, f).collected
       /\ f \notin DOMAIN ext_response.obj

\* C7: an answer that is no JSON object leaves shadow_profile and real_profile as
\* they were.
C7_UnparseableChangesNothing ==
  ext_response.kind \in NonObjectKinds =>
    /\ shadow_profile = before.shadow_profile
    /\ real_profile = before.real_profile

C7_Witness ==
  /\ ext_response.kind = "invalid"
  /\ DOMAIN ext_response.obj # {}
  /\ real_profile # EmptyDict

\* C8, as claimed: after an answer that is no JSON object the turn goes on to the
\* router and no error reaches the caller.
C8_Original ==
  ext_response.kind \in NonObjectKinds =>
    /\ pc \in {"matcher", "planner", "chatbot"}
    /\ outcome.status # "error"

\* C9, as claimed: a returned key that is not tracked changes neither shadow_profile
\* nor real_profile.
C9_Original ==
  (ExtractorRan /\ ext_response.kind = "object") =>
    \A k \in DOMAIN ext_response.obj \ Keys(before.shadow_profile) :
      /\ k \notin Keys(shadow_profile)
      /\ k \in DOMAIN real_profile <=> k \in DOMAIN before.real_profile
      /\ k \in DOMAIN before.real_profile => real_profile[k] = before.real_profile[k]

\* C9, amended: a returned key that is not tracked is not added to shadow_profile
\* and changes no collected flag, and it is stored in real_profile with the returned
\* value.
C9_UntrackedKeyStoredNotTracked ==
  (ExtractorRan /\ ext_response.kind = "object") =>
    \A k \in DOMAIN ext_response.obj \ Keys(before.shadow_profile) :
      /\ k \notin Keys(shadow_profile)
      /\ Len(shadow_profile) = Len(before.shadow_profile)
      /\ \A i \in DOMAIN shadow_profile :
           shadow_profile[i] # before.shadow_profile[i]
             => shadow_profile[i].field \in DOMAIN ext_response.obj
      /\ k \in DOMAIN real_profile
      /\ real_profile[k] = ext_response.obj[k]

C9_Witness ==
  /\ ExtractorRan
  /\ ext_response.kind = "object"
  /\ \E k \in DOMAIN ext_response.obj :
       /\ k \notin Keys(before.shadow_profile)
       /\ k \notin DOMAIN before.real_profile
       /\ k \in DOMAIN real_profile

\* C10, as claimed: after a successful extraction real_profile holds, for every
\* returned key, goal included, the returned value.
C10_Original ==
  (ExtractorRan /\ ext_response.kind = "object") =>
    \A k \in DOMAIN ext_response.obj :
      k \in DOMAIN real_profile /\ real_profile[k] = ext_response.obj[k]

\* C10, amended: after a successful extraction real_profile holds, for every
\* returned key but goal, the returned value, whatever was stored before; for goal
\* it holds the text of the user's latest message.
C10_LastWriteWinsButGoal ==
  (ExtractorRan /\ ext_response.kind = "object") =>
    \A k \in DOMAIN ext_response.obj :
      /\ k \in DOMAIN real_profile
      /\ real_profile[k] = IF k = "goal" THEN last_human ELSE ext_response.obj[k]

C10_Witness ==
  /\ ExtractorRan
  /\ ext_response.kind = "object"
  /\ \E k \in DOMAIN ext_response.obj \cap DOMAIN before.real_profile :
       /\ k # "goal"
       /\ before.real_profile[k] # ext_response.obj[k]
       /\ real_profile[k] = ext_response.obj[k]

\* C11, as claimed: a title is requested only in an extraction step that finds no
\* goal stored yet, so that it is generated at most once in a session.
C11_Original ==
  (ExtractorRan /\ title_requested) => "goal" \notin DOMAIN before.real_profile

AfterChatbot ==
  /\ agents_run # <<>>
  /\ agents_run[Len(agents_run)] = "chatbot"

\* C12: after the chatbot node the summarizer is the next node exactly when the
\* chatbot's history has at least 20 messages; a turn that ends without the
\* summarizer has fewer than 20.
C12_SummarizeAtThreshold ==
  /\ AfterChatbot =>
       /\ pc \in {"summarizer", "return"}
       /\ pc = "summarizer" <=> Len(chatbot_messages) >= 20
       /\ Len(chatbot_messages) = 20 => pc = "summarizer"
       /\ Len(chatbot_messages) = 19 => pc = "return"
  /\ pc = "summarizer" => AfterChatbot

C12_Witness ==
  /\ AfterChatbot
  /\ Len(chatbot_messages) = 20
  /\ pc = "summarizer"

C14_TemplateIsKnown ==
  AfterMatcher =>
    /\ selected_template \in {"spend", "leave", "save", "donate", "default"}
    /\ selected_template =
         IF StripLower(classifier_text) \in {"spend", "leave", "save", "donate", "default"}
           THEN StripLower(classifier_text) ELSE "default"
    /\ pc = "chatbot"
    /\ outcome.status # "error"

C14_Witness ==
  /\ AfterMatcher
  /\ classifier_text = "travel"
  /\ selected_template = "default"

TurnSequences ==
  { <<"extractor", "chatbot">>,
    <<"extractor", "chatbot", "summarizer">>,
    <<"extractor", "matcher", "chatbot">>,
    <<"extractor", "matcher", "chatbot", "summarizer">>,
    <<"extractor", "planner">> }

IsPrefix(p, q) == Len(p) <= Len(q) /\ \A i \in 1..Len(p) : p[i] = q[i]

\* C15: the agents run in a chat_step are always the beginning of one of the five
\* sequences, so no agent runs twice and at most four run; when graph.invoke
\* returns they are exactly one of the five.
C15_TurnSequences ==
  /\ \E q \in TurnSequences : IsPrefix(agents_run, q)
  /\ pc = "return" => agents_run \in TurnSequences

C15_Witness ==
  /\ pc = "return"
  /\ agents_run = <<"extractor", "matcher", "chatbot", "summarizer">>

\* C16, as claimed: a planner run whose query node requests no retrieval still runs
\* call_planner before it ends.
C16_Original ==
  (pc = "return" /\ planner_run # <<>>) =>
    planner_run[Len(planner_run)] = "call_planner"

PlannerPaths ==
  { <<"query_or_respond">>, <<"query_or_respond", "tools", "call_planner">> }

\* C17: the planner nodes run in a chat_step are always the beginning of
\* query_or_respond, tools, call_planner; a finished planner run is that sequence or
\* query_or_respond alone.
C17_PlannerPaths ==
  /\ \E q \in PlannerPaths : IsPrefix(planner_run, q)
  /\ (pc = "return" /\ planner_run # <<>>) => planner_run \in PlannerPaths

C17_Witness ==
  /\ pc = "return"
  /\ planner_run = <<"query_or_respond", "tools", "call_planner">>

SameDict(a, b) == DOMAIN a = DOMAIN b /\ \A k \in DOMAIN a : a[k] = b[k]

\* C18, as claimed: every profile a planner node puts into its prompt is the
\* session's real_profile as the extraction step of the turn left it.
C18_Original ==
  \A i \in DOMAIN planner_profile : SameDict(planner_profile[i], real_profile)

\* C19: the real_profile that chat_step returns has the tracked fields as its keys,
\* each with its value in real_profile, or False when real_profile has no such key.
C19_ProfileSnapshot ==
  outcome.status = "ok" =>
    /\ DOMAIN outcome.real_profile = Keys(shadow_profile)
    /\ \A f \in Keys(shadow_profile) :
         outcome.real_profile[f] =
           IF f \in DOMAIN real_profile THEN real_profile[f] ELSE <<"False", 0>>

C19_Witness ==
  /\ outcome.status = "ok"
  /\ \E f \in Keys(shadow_profile) : outcome.real_profile[f] = <<"False", 0>>
  /\ \E f \in Keys(shadow_profile) : outcome.real_profile[f] = <<"val", 1>>
  /\ DOMAIN real_profile \ Keys(shadow_profile) # {}

\* C20: right after start_session the tracked fields are goal:5, age:2, salary:3,
\* savings:4, location:5, all uncollected, real_profile is empty, no template is
\* selected and the chatbot's history is the persona instruction and the greeting.
C20_FreshSession ==
  outcome.status = "started" =>
    /\ shadow_profile =
         << [field |-> "goal", collected |-> FALSE, importance |-> 5],
            [field |-> "age", collected |-> FALSE, importance |-> 2],
            [field |-> "salary", collected |-> FALSE, importance |-> 3],
            [field |-> "savings", collected |-> FALSE, importance |-> 4],
            [field |-> "location", collected |-> FALSE, importance |-> 5] >>
    /\ DOMAIN real_profile = {}
    /\ selected_template = "None"
    /\ chatbot_messages = <<"system", "ai">>
    /\ pc = "idle"

C20_Witness ==
  /\ outcome.status = "started"
  /\ DOMAIN real_profile = {}
  /\ Len(shadow_profile) = 5
  /\ chatbot_messages = <<"system", "ai">>

CollectedKept ==
  \A f \in Keys(shadow_profile) \cap Keys(shadow_profile') :
    Item(shadow_profile, f).collected => Item(shadow_profile', f).collected

C25_ProfileKeysOnlyGrow ==
  [][StartSession \/ (DOMAIN real_profile \subseteq DOMAIN real_profile')]_vars

\* an extraction that returns one key while the profile holds others
C25_Witness ==
  /\ ExtractorRan
  /\ ext_response.kind = "object"
  /\ DOMAIN ext_response.obj # {}
  /\ DOMAIN before.real_profile \ DOMAIN ext_response.obj # {}
  /\ DOMAIN before.real_profile \subseteq DOMAIN real_profile

ExpectedResponse ==
  IF agents_run = <<"extractor", "planner">>
    THEN <<"formatted", planner_last>>
    ELSE <<"assistant", reply>>

\* C28: chat_step returns the planner's last message, formatted, when the chat_step
\* ran the planner, and the message the chatbot has just appended otherwise.
C28_ResponseText ==
  [][(pc = "return" /\ pc' = "idle") => (outcome'.response = ExpectedResponse)]_vars

C28_Witness ==
  /\ outcome.status = "ok"
  /\ outcome.response[1] = "formatted"
  /\ outcome.response[2] = "plan"

PlannerPcs == {"planner", "tools", "call_planner"}

PlannerStep ==
  /\ UNCHANGED <<chatbot_messages, shadow_profile, real_profile, selected_template>>
  /\ pc' \in {"tools", "call_planner", "return"}
  /\ agents_run' = <<"extractor", "planner">>

\* C29: a step of the planner leaves the chatbot's history, shadow_profile,
\* real_profile and the selected template as they are, and after it comes another
\* planner node or the end of the chat_step, whose agents are the extractor and the
\* planner.
C29_PlannerEndsTurn ==
  [][(pc \in PlannerPcs) => PlannerStep]_vars

C29_Witness ==
  /\ pc = "return"
  /\ agents_run = <<"extractor", "planner">>
  /\ planner_last = "plan"
  /\ reply = "none"

AfterSummarizer ==
  /\ agents_run # <<>>
  /\ agents_run[Len(agents_run)] = "summarizer"

\* C30: after the summarizer the summary is the one it produced and the chatbot's
\* history is the persona instruction, the summary message and the chatbot's last
\* reply.
C30_HistoryAfterSummary ==
  AfterSummarizer =>
    /\ summary \in Summaries
    /\ chatbot_messages = <<"system", "summary", "ai">>
    /\ pc = "return"

C30_Witness ==
  /\ AfterSummarizer
  /\ agents_run = <<"extractor", "chatbot", "summarizer">>
  /\ Len(chatbot_messages) = 3

RECURSIVE ImportanceOver(_, _)
\* the sum of the importances of the entries of profile at the indices in S
ImportanceOver(profile, S) ==
  IF S = {} THEN 0
  ELSE LET i == CHOOSE j \in S : TRUE
       IN  profile[i].importance + ImportanceOver(profile, S \ {i})

CollectedIndices(profile) == {i \in DOMAIN profile : profile[i].collected}

\* C26: for a non-empty shadow_profile with importances in 1..5 the router divides
\* the sum of the importances of the collected fields by the sum of the importances
\* of all fields; the divisor is positive and the quotient is between 0 and 1, and it
\* is compared with COMPLETENESSRATIO as that quotient.
C26_CompletenessRatio ==
  (pc = "routed" /\ shadow_profile # <<>>) =>
    /\ outcome.status = "routed"
    /\ outcome.totFilledImportance =
         ImportanceOver(shadow_profile, CollectedIndices(shadow_profile))
    /\ outcome.totImportance = ImportanceOver(shadow_profile, DOMAIN shadow_profile)
    /\ outcome.totImportance > 0
    /\ 0 <= outcome.totFilledImportance
    /\ outcome.totFilledImportance <= outcome.totImportance
    /\ outcome.reached = (outcome.totFilledImportance >= 1 * outcome.totImportance)

\* two fields of different importance, one of them collected
C26_Witness ==
  /\ pc = "routed"
  /\ outcome.status = "routed"
  /\ Len(shadow_profile) = 2
  /\ outcome.totFilledImportance = 2
  /\ outcome.totImportance = 5

SessionData ==
  <<shadow_profile, real_profile, selected_template, conversation_title,
    chatbot_messages>>

\* C21 as the specification states it: a start_session or a chat_step for one
\* session id changes nothing of another session. The process holds the state of
\* one session, state_session: a step that makes it the state of another session
\* leaves the data of state_session as they are, and a chat_step works on the state
\* of the session it names.
C21_Original ==
  [][ /\ (state_session' # state_session) => UNCHANGED SessionData
      /\ (turn_session' # NoSession) => (turn_session' = state_session') ]_vars

\* C22 as the specification states it: a chat_step starts from the state the
\* chat_step before it has stored, so the history it replaces is the one it read.
C22_Original ==
  pending.status = "running" => pending.overwritten = pending.chatbot_messages

PreTurn == <<before.shadow_profile, before.real_profile, before.extractor,
             before.conversation_title>>

\* C23 as the specification states it: after a chat_step in which a model call has
\* failed, the state of the session is the state before the chat_step.
C23_Original ==
  (outcome.status = "error" /\ outcome.error = "ModelCallError") =>
    <<shadow_profile, real_profile, extractor, conversation_title>> = PreTurn

Position(profile, f) == CHOOSE i \in DOMAIN profile : profile[i].field = f

\* f comes before g in the missing-field list: higher importance, or the same
\* importance and registered earlier
Precedes(profile, f, g) ==
  \/ Item(profile, f).importance > Item(profile, g).importance
  \/ /\ Item(profile, f).importance = Item(profile, g).importance
     /\ Position(profile, f) < Position(profile, g)

\* the missing field that precedes every other one
TopMissing(profile) ==
  CHOOSE f \in MissingFields(profile) :
    \A g \in MissingFields(profile) \ {f} : Precedes(profile, f, g)

Count(messages, kind) == Cardinality({i \in DOMAIN messages : messages[i] = kind})

OneAssistantMessageAppended ==
  /\ Count(chatbot_messages, "ai") = Count(outcome.messages, "ai") + 1
  /\ chatbot_messages[Len(chatbot_messages)] = "ai"

\* replies that say that everything is collected, in the prompt's words or in others
CompletionClaims ==
  {"All necessary info collected. Proceeding to generate your plan.",
   "  ALL NECESSARY INFO COLLECTED.\n",
   "I have everything I need to build your plan."}

C32_MissingFieldsOrder ==
  outcome.status = "replied" =>
    LET list == outcome.missing_fields
    IN  /\ {list[i].field : i \in DOMAIN list} = MissingFields(shadow_profile)
        /\ Len(list) = Cardinality(MissingFields(shadow_profile))
        /\ \A i, j \in DOMAIN list :
             i < j => Precedes(shadow_profile, list[i].field, list[j].field)
        /\ (/\ Len(shadow_profile) = 10
            /\ shadow_profile[6].field = "retirement_age"
            /\ shadow_profile[7].field = "desired_monthly_spending")
             => (list[1].field = "retirement_age"
                 /\ list[2].field = "desired_monthly_spending")

C32_Witness ==
  /\ outcome.status = "replied"
  /\ Len(shadow_profile) = 10
  /\ shadow_profile[7].field = "desired_monthly_spending"
  /\ Len(outcome.missing_fields) = 5
  /\ outcome.missing_fields[1].field = "retirement_age"

ChatbotFrame ==
  UNCHANGED <<real_profile, shadow_profile, selected_template, conversation_title>>

\* C33: a step of the Interview Agent leaves real_profile, every entry of
\* shadow_profile, the selected template and the title as they are.
C33_ChatbotFrame ==
  [][(pc = "chatbot") => ChatbotFrame]_vars

\* the Interview Agent has answered while fields are missing and a template is set
C33_Witness ==
  /\ AfterChatbot
  /\ pc = "return"
  /\ MissingFields(shadow_profile) # {}
  /\ selected_template # NoTemplate
  /\ DOMAIN real_profile # {}

\* C34: in every state of a session the chatbot's history holds the persona
\* instruction exactly once, as its first message.
C34_OnePersonaInstruction ==
  /\ chatbot_messages # <<>>
  /\ Head(chatbot_messages) = "system"
  /\ Count(chatbot_messages, "system") = 1

\* an Interview Agent turn on a history that the summarizer has cut
C34_Witness ==
  /\ pc = "return"
  /\ agents_run = <<"extractor", "chatbot">>
  /\ Count(chatbot_messages, "summary") = 1
  /\ Len(chatbot_messages) = 6

\* C35: with COMPLETENESSRATIO = 1 and importances of at least 1 the completeness
\* is reached exactly when every field is collected, needsCriticalInfo is then
\* false, and the router returns what it would return without the needsCriticalInfo
\* test.
C35_CriticalTestRedundant ==
  (pc = "routed" /\ outcome.status = "routed") =>
    /\ outcome.reached = (\A i \in DOMAIN shadow_profile : shadow_profile[i].collected)
    /\ outcome.reached => ~outcome.needsCriticalInfo
    /\ outcome.node =
         IF outcome.reached
           THEN (IF selected_template = NoTemplate THEN "matcher" ELSE "planner")
           ELSE "chatbot"

\* a field of the highest importance is missing and another one is collected
C35_Witness ==
  /\ pc = "routed"
  /\ outcome.status = "routed"
  /\ outcome.needsCriticalInfo
  /\ outcome.totFilledImportance = 5
  /\ outcome.totImportance = 10
  /\ outcome.node = "chatbot"

\* C36 as the specification states it: at the end of a successful chat_step every
\* collected field has its key in real_profile.
C36_Original ==
  (pc = "idle" /\ outcome.status = "ok") =>
    CollectedFields(shadow_profile) \subseteq DOMAIN real_profile

\* a template is selected and every tracked field is collected
Ready ==
  /\ selected_template # NoTemplate
  /\ MissingFields(shadow_profile) = {}

PlannerRan == \E i \in DOMAIN agents_run : agents_run[i] = "planner"

ReadyIsAbsorbing ==
  /\ PlannerRan => Ready
  /\ Ready => (StartSession \/ Ready')
  /\ Ready => agents_run' \in {<<>>, <<"extractor">>, <<"extractor", "planner">>}
  /\ (Ready /\ pc' = "return") => (agents_run' = <<"extractor", "planner">>)

\* C37: a chat_step is routed to the planner only when a template is selected and
\* every field is collected; from then on, until start_session, this stays so, the
\* only agents that run are the extractor and the planner, and every chat_step that
\* returns has been routed to the planner.
C37_ReadyIsAbsorbing ==
  [][ReadyIsAbsorbing]_vars

\* a chat_step is routed to the planner after an earlier one has produced a plan
C37_Witness ==
  /\ pc = "planner"
  /\ agents_run = <<"extractor">>
  /\ planner_last = "plan"
  /\ Ready

\* C38: when a chat_step ends, the chatbot's history has fewer than 20 messages.
C38_HistoryBelowThreshold ==
  (pc = "return" \/ (pc = "idle" /\ outcome.status = "ok")) =>
    Len(chatbot_messages) < 20

\* a chat_step has returned after the summarizer cut the history
C38_Witness ==
  /\ pc = "idle"
  /\ outcome.status = "ok"
  /\ chatbot_messages = <<"system", "summary", "ai">>

\* C39: in a session in which every answer of the extractor names a field that is
\* still missing, a template is eventually selected and afterwards a chat_step is
\* eventually routed to the planner; the planner never runs while no template is
\* selected.
C39_EventuallyPlanned ==
  /\ <>(selected_template # NoTemplate)
  /\ (selected_template # NoTemplate) ~> PlannerRan
  /\ [](PlannerRan => selected_template # NoTemplate)

\* the planner has produced a plan for the template that the matcher selected
C39_Witness ==
  /\ pc = "return"
  /\ agents_run = <<"extractor", "planner">>
  /\ selected_template = "donate"
  /\ planner_last = "plan"

====
